---- MODULE Spec2Model ----
(***************************************************************************)
(* A model of bencher's adapter layer:                                     *)
(*   - the Criterion (line-oriented) adapter, adapters/rust/criterion.rs,  *)
(*   - the JMH (JSON) adapter, adapters/java/jmh.rs,                       *)
(*   - AdapterMetrics::combined and Div, results/adapter_metrics.rs.       *)
(*                                                                         *)
(* A &str is a sequence of characters, a character a one-element string    *)
(* (the two micro signs are the tokens "U+03BC" and "U+00B5").  An f64 is  *)
(* the exact number it denotes, rounding left out; a zero denominator      *)
(* holds the non-finite results of IEEE division by zero.  Option<T> is    *)
(* <<>> for None and <<x>> for Some(x).  A nom IResult is the record       *)
(* [ok, rest, val]: on success rest is the remainder and val the output.   *)
(***************************************************************************)
EXTENDS Integers, Sequences, FiniteSets, TLC

VARIABLES
    input,              \* criterion: input.lines(), the lines of the text
    allow_failure,      \* criterion: settings.allow_failure
    idx,                \* criterion: number of lines the for loop has taken
    prior_line,         \* criterion: Option<&str>
    benchmark_metrics,  \* criterion/jmh: Vec<(name, JsonMetric)>
    jmh,                \* jmh: the deserialized Jmh(Vec<Benchmark>)
    self_metrics,       \* combined/div: the receiver (self)
    other,              \* combined: the argument `other`
    kind,               \* combined: the argument `kind`
    rhs,                \* div: the argument `rhs`
    pc,                 \* position of the call: "loop", "collect", "done", ...
    result              \* what the call returned: None, or Ok(..) / Err(..)

vars == <<input, allow_failure, idx, prior_line, benchmark_metrics, jmh,
          self_metrics, other, kind, rhs, pc, result>>

(***************************************************************************)
(* Bounds of the model.                                                    *)
(***************************************************************************)
MaxLines == 3
MaxRecords == 2
MaxValue == 2
MaxDiv == 2

(***************************************************************************)
(* Rust's Option and Result.                                               *)
(***************************************************************************)
None == <<>>
Some(x) == <<x>>
Ok(v) == [tag |-> "Ok", val |-> v]
Err(e) == [tag |-> "Err", val |-> e]

(***************************************************************************)
(* f64 as exact numbers: <<n, d, e>> is (n / d) * 10^e.  The canonical     *)
(* form has d > 0 coprime to n and to 10, n not a multiple of 10, and is   *)
(* <<0, 1, 0>> for zero, so that equal numbers are equal triples.  The     *)
(* power of ten keeps the nanosecond factors within machine integers.      *)
(***************************************************************************)
Abs(n) == IF n < 0 THEN -n ELSE n

RECURSIVE Gcd(_, _)
Gcd(a, b) == IF b = 0 THEN a ELSE Gcd(b, a % b)

Sign(n) == IF n > 0 THEN 1 ELSE IF n < 0 THEN -1 ELSE 0

RECURSIVE Pow10(_)
Pow10(k) == IF k = 0 THEN 1 ELSE 10 * Pow10(k - 1)

\* Moves the factors 2 and 5 of d, and the factors 10 of n, into e.
RECURSIVE F64Norm(_, _, _)
F64Norm(n, d, e) ==
    IF d % 2 = 0 THEN F64Norm(n * 5, d \div 2, e - 1)
    ELSE IF d % 5 = 0 THEN F64Norm(n * 2, d \div 5, e - 1)
    ELSE IF n % 10 = 0 THEN F64Norm(n \div 10, d, e + 1)
    ELSE <<n, d, e>>

\* (n / d) * 10^e in canonical form; a zero d is +inf, -inf or NaN.
F64(n, d, e) ==
    IF d = 0 THEN <<Sign(n), 0, 0>>
    ELSE IF n = 0 THEN <<0, 1, 0>>
    ELSE LET g == Gcd(Abs(n), Abs(d))
             s == IF d < 0 THEN -1 ELSE 1
         IN  F64Norm((s * n) \div g, (s * d) \div g, e)

\* The numerators of x and y over the common denominator x[2] * y[2] and
\* the common exponent min(x[3], y[3]).
Aligned(x, y) ==
    LET e == IF x[3] < y[3] THEN x[3] ELSE y[3]
    IN  [x |-> x[1] * Pow10(x[3] - e) * y[2],
         y |-> y[1] * Pow10(y[3] - e) * x[2],
         d |-> x[2] * y[2], e |-> e]

F64Mul(x, y) == F64(x[1] * y[1], x[2] * y[2], x[3] + y[3])
F64Add(x, y) == LET a == Aligned(x, y) IN F64(a.x + a.y, a.d, a.e)
F64Sub(x, y) == LET a == Aligned(x, y) IN F64(a.x - a.y, a.d, a.e)
F64Less(x, y) == LET a == Aligned(x, y) IN a.x < a.y
\* x / (k as f64): by zero, IEEE gives an infinity, or NaN for 0 / 0.
F64DivInt(x, k) == F64(x[1], x[2] * k, x[3])

(***************************************************************************)
(* Characters and nom's primitive parsers.                                 *)
(***************************************************************************)
Digits == {"0", "1", "2", "3", "4", "5", "6", "7", "8", "9"}

DigitVal(c) ==
    CASE c = "0" -> 0 [] c = "1" -> 1 [] c = "2" -> 2 [] c = "3" -> 3
      [] c = "4" -> 4 [] c = "5" -> 5 [] c = "6" -> 6 [] c = "7" -> 7
      [] c = "8" -> 8 [] c = "9" -> 9

Fail == [ok |-> FALSE, rest |-> <<>>, val |-> <<>>]
Done(rest, val) == [ok |-> TRUE, rest |-> rest, val |-> val]

Drop(s, n) == SubSeq(s, n + 1, Len(s))
Take(s, n) == SubSeq(s, 1, n)

\* The length of the longest prefix of s made of characters of set S.
RECURSIVE SpanLen(_, _)
SpanLen(s, S) ==
    IF s # <<>> /\ Head(s) \in S THEN 1 + SpanLen(Tail(s), S) ELSE 0

\* nom::bytes::complete::tag
tag(t, s) ==
    IF Len(s) >= Len(t) /\ Take(s, Len(t)) = t
    THEN Done(Drop(s, Len(t)), t) ELSE Fail

\* The span of characters of S at the head of s, at least one character.
span1(s, n) == IF n >= 1 THEN Done(Drop(s, n), Take(s, n)) ELSE Fail

\* nom::character::complete::space1: one or more spaces or tabs
space1(s) == span1(s, SpanLen(s, {" ", "\t"}))

\* nom::combinator::eof
eof(s) == IF s = <<>> THEN Done(s, <<>>) ELSE Fail

\* nom::sequence::tuple, one parser at a time: Start(s) is the empty tuple
\* at s, then(r, P) runs P on what r left and appends its output; the
\* first failure fails the tuple.
Start(s) == Done(s, <<>>)
append_output(r, q) == IF q.ok THEN Done(q.rest, Append(r.val, q.val)) ELSE Fail
then(r, P(_)) == IF r.ok THEN append_output(r, P(r.rest)) ELSE Fail

\* nom::branch::alt of two results: the first when it matched.
alt(a, b) == IF a.ok THEN a ELSE b

\* nom::combinator::map with a constant output.
map_to(r, val) == IF r.ok THEN Done(r.rest, val) ELSE Fail

\* The i-th output of a tuple.
map_nth(r, i) == IF r.ok THEN Done(r.rest, r.val[i]) ELSE Fail

(***************************************************************************)
(* criterion.rs: units and numbers.                                        *)
(***************************************************************************)
\* parse_units taking "Ns" for nanoseconds as well.
parse_units_any_case(s) ==
    alt(map_to(tag(<<"p", "s">>, s), "Pico"),
    alt(map_to(tag(<<"n", "s">>, s), "Nano"),
    alt(map_to(tag(<<"N", "s">>, s), "Nano"),
    alt(map_to(tag(<<"U+03BC", "s">>, s), "Micro"),
    alt(map_to(tag(<<"U+00B5", "s">>, s), "Micro"),
    alt(map_to(tag(<<"m", "s">>, s), "Milli"),
        map_to(tag(<<"s">>, s), "Sec")))))))

\* enum Units { Pico, Nano, Micro, Milli, Sec } and parse_units: alt tries
\* the tags in this order and keeps the first that matches.
parse_units(s) ==
    alt(map_to(tag(<<"p", "s">>, s), "Pico"),
    alt(map_to(tag(<<"n", "s">>, s), "Nano"),
    alt(map_to(tag(<<"U+03BC", "s">>, s), "Micro"),
    alt(map_to(tag(<<"U+00B5", "s">>, s), "Micro"),
    alt(map_to(tag(<<"m", "s">>, s), "Milli"),
        map_to(tag(<<"s">>, s), "Sec"))))))

\* Units::as_nanos
as_nanos(units) ==
    CASE units = "Pico" -> F64(1, 1000, 0)
      [] units = "Nano" -> F64(1, 1, 0)
      [] units = "Micro" -> F64(1, 1, 3)
      [] units = "Milli" -> F64(1, 1, 6)
      [] units = "Sec" -> F64(1, 1, 9)

\* The fold of parse_float: every piece but the commas is kept.
without_commas(r) ==
    IF r.ok THEN Done(r.rest, SelectSeq(r.val, LAMBDA c : c # ","))
    ELSE Fail

\* parse_float: fold_many1(alt((digit1, tag("."), tag(",")))) takes the
\* longest run of digits, dots and commas, at least one character.
parse_float(s) ==
    without_commas(span1(s, SpanLen(s, Digits \cup {".", ","})))

\* The digits of number, read as a decimal integer.
RECURSIVE DigitsVal(_)
DigitsVal(number) ==
    IF number = <<>> THEN 0
    ELSE 10 * DigitsVal(Take(number, Len(number) - 1))
         + DigitVal(number[Len(number)])

\* The number of digits after the dot of a text with at most one dot.
FracDigits(number, dots) ==
    IF dots = {} THEN 0 ELSE Len(number) - (CHOOSE i \in dots : TRUE)

\* f64::from_str on a text of digits and dots, whose dots are at the
\* positions dots: it takes the texts with at least one digit and at most
\* one dot ("5", "5.", ".5", "2.5").
f64_from_str(number, dots, digs) ==
    IF Cardinality(dots) <= 1 /\ digs # <<>>
    THEN Ok(F64(DigitsVal(digs), Pow10(FracDigits(number, dots)), 0))
    ELSE Err("Tag")

\* to_f64: f64::from_str on the concatenated pieces.  Result<f64, _>.
to_f64(number) ==
    f64_from_str(number, {i \in DOMAIN number : number[i] = "."},
                 SelectSeq(number, LAMBDA c : c # "."))

\* The closure of parse_criterion_duration: to_f64(duration)? * as_nanos.
duration_nanos(r, d) ==
    IF d.tag = "Ok" THEN Done(r.rest, F64Mul(d.val, as_nanos(r.val[3])))
    ELSE Fail
map_res_duration(r) == IF r.ok THEN duration_nanos(r, to_f64(r.val[1])) ELSE Fail

\* parse_criterion_duration: tuple((parse_float, space1, parse_units)),
\* failing when to_f64 does.
parse_criterion_duration(s) ==
    map_res_duration(then(then(then(Start(s), parse_float), space1),
                          parse_units))

\* bencher_json::JsonMetric as criterion.rs builds it.
JsonMetric(value, lower_bound, upper_bound) ==
    [value |-> value, lower_bound |-> lower_bound, upper_bound |-> upper_bound]

tag_open(s) == tag(<<"[">>, s)
tag_close(s) == tag(<<"]">>, s)

\* The closure of parse_criterion_metric with the first number as value.
map_metric_first_is_value(r) ==
    IF r.ok
    THEN Done(r.rest, JsonMetric(r.val[2], Some(r.val[4]), Some(r.val[6])))
    ELSE Fail

\* The closure of parse_criterion_metric: of "[" lower sp value sp upper
\* "]", |(lower_bound, _, value, _, upper_bound)| JsonMetric { .. }.
map_metric(r) ==
    IF r.ok
    THEN Done(r.rest, JsonMetric(r.val[4], Some(r.val[2]), Some(r.val[6])))
    ELSE Fail

\* parse_criterion_metric: "[" duration space1 duration space1 duration "]"
parse_criterion_metric(s) ==
    map_metric(
        then(then(then(then(then(then(then(Start(s),
            tag_open), parse_criterion_duration), space1),
            parse_criterion_duration), space1), parse_criterion_duration),
            tag_close))

tag_time(s) == tag(<<"t", "i", "m", "e", ":">>, s)

\* parse_criterion_time: space1 "time:" space1 metric eof, mapped to the
\* metric.
parse_criterion_time(s) ==
    map_nth(then(then(then(then(then(Start(s),
                space1), tag_time), space1), parse_criterion_metric), eof),
            4)

\* many_till(anychar, parse_criterion_time): at each position try the
\* terminator first; when it fails take one character and go on; fail at
\* the end of the input.  val is <<key_chars, metric>>.
RECURSIVE many_till_time(_, _)
till_time(t, key_chars, s) ==
    IF t.ok THEN Done(t.rest, <<key_chars, t.val>>)
    ELSE IF s = <<>> THEN Fail
    ELSE many_till_time(Append(key_chars, Head(s)), Tail(s))
many_till_time(key_chars, s) == till_time(parse_criterion_time(s), key_chars, s)

\* The closure of parse_criterion: an empty key is replaced by
\* prior_line.unwrap_or_default().
map_key(prior, r) ==
    IF ~r.ok THEN Fail
    ELSE IF r.val[1] = <<>>
    THEN Done(r.rest, <<IF prior = None THEN <<>> ELSE prior[1], r.val[2]>>)
    ELSE Done(r.rest, r.val)

\* parse_criterion
parse_criterion(prior, line) == map_key(prior, many_till_time(<<>>, line))

\* many_till(anychar, peek(tag("'"))): the characters before the first
\* quote, which is left in the remainder; fails when there is no quote.
RECURSIVE many_till_quote(_, _)
many_till_quote(acc, s) ==
    IF s = <<>> THEN Fail
    ELSE IF Head(s) = "'" THEN Done(s, acc)
    ELSE many_till_quote(Append(acc, Head(s)), Tail(s))

tag_quote(s) == tag(<<"'">>, s)
until_quote(s) == many_till_quote(<<>>, s)

\* delimited(tag("'"), many_till(anychar, peek(tag("'"))), tag("'"))
quoted(s) ==
    map_nth(then(then(then(Start(s), tag_quote), until_quote), tag_quote), 2)

tag_thread(s) == tag(<<"t", "h", "r", "e", "a", "d", " ">>, s)
tag_panicked_at(s) ==
    tag(<<" ", "p", "a", "n", "i", "c", "k", "e", "d", " ", "a", "t", " ">>, s)
tag_comma_space(s) == tag(<<",", " ">>, s)

\* many_till(anychar, eof): the rest of the line.
until_eof(s) == Done(<<>>, s)

\* The closure of parse_panic with context and location exchanged.
map_panic_swapped(r) ==
    IF r.ok THEN Done(r.rest, <<r.val[2], r.val[6], r.val[4]>>) ELSE Fail

\* The closure of parse_panic: (thread, context, location).
map_panic(r) ==
    IF r.ok THEN Done(r.rest, <<r.val[2], r.val[4], r.val[6]>>) ELSE Fail

\* parse_panic: thread 'T' panicked at 'C', LOCATION
parse_panic(s) ==
    map_panic(
        then(then(then(then(then(then(Start(s),
            tag_thread), quoted), tag_panicked_at), quoted),
            tag_comma_space), until_eof))

(***************************************************************************)
(* criterion.rs: AdapterRustCriterion::parse.                              *)
(***************************************************************************)
\* BenchmarkName::from_str (bencher_json): a name is valid when non-empty.
is_valid_benchmark_name(name) == name # <<>>

\* LATENCY_RESOURCE_ID, the one metric kind the adapters emit.
LATENCY_RESOURCE_ID == "latency"

\* AdapterError::Panic { thread, context, location }
Panic(thread, context, location) ==
    [kind |-> "Panic", thread |-> thread, context |-> context,
     location |-> location]

\* The state of the for loop: the two locals and, once the body has
\* returned, the value returned (Option<Result>).
LoopState(prior, metrics, ret) ==
    [prior_line |-> prior, benchmark_metrics |-> metrics, ret |-> ret]

\* Lines 31-35: the pair of a line that parse_criterion takes whole is
\* pushed.
push_metric(metrics, c) ==
    IF c.ok /\ c.rest = <<>> THEN Append(metrics, c.val) ELSE metrics

\* panic_test without the return: a panic line is skipped whatever the
\* setting.
panic_test_no_abort(st, line, allow, pushed, p) ==
    IF p.ok /\ p.rest = <<>>
    THEN LoopState(st.prior_line, pushed, None)
    ELSE LoopState(Some(line), pushed, None)

\* panic_test retaining a skipped panic line as the prior line.
panic_test_retains_panic(st, line, allow, pushed, p) ==
    IF p.ok /\ p.rest = <<>> /\ ~allow
    THEN LoopState(st.prior_line, pushed,
                   Some(Err(Panic(p.val[1], p.val[2], p.val[3]))))
    ELSE LoopState(Some(line), pushed, None)

\* panic_test returning the error whatever the setting.
panic_test_ignores_setting(st, line, allow, pushed, p) ==
    IF p.ok /\ p.rest = <<>>
    THEN LoopState(st.prior_line, pushed,
                   Some(Err(Panic(p.val[1], p.val[2], p.val[3]))))
    ELSE LoopState(Some(line), pushed, None)

\* panic_test with allow_failure continuing on every line, so that no line
\* becomes the prior line.
panic_test_always_continues(st, line, allow, pushed, p) ==
    IF allow THEN LoopState(st.prior_line, pushed, None)
    ELSE IF p.ok /\ p.rest = <<>>
    THEN LoopState(st.prior_line, pushed,
                   Some(Err(Panic(p.val[1], p.val[2], p.val[3]))))
    ELSE LoopState(Some(line), pushed, None)

\* Lines 37-51: a line that parse_panic takes whole either continues
\* (allow_failure, prior_line left as it was) or returns Err(Panic); any
\* other line becomes the prior line.
panic_test(st, line, allow, pushed, p) ==
    IF p.ok /\ p.rest = <<>>
    THEN IF allow
         THEN LoopState(st.prior_line, pushed, None)
         ELSE LoopState(st.prior_line, pushed,
                        Some(Err(Panic(p.val[1], p.val[2], p.val[3]))))
    ELSE LoopState(Some(line), pushed, None)

\* One iteration of `for line in input.lines()`: the metric is pushed
\* first, then the line is tested for a panic.
loop_body(st, line, allow) ==
    panic_test(st, line, allow,
               push_metric(st.benchmark_metrics,
                           parse_criterion(st.prior_line, line)),
               parse_panic(line))

\* AdapterMetrics { inner: hmap! { LATENCY_RESOURCE_ID => metric } }
latency_metrics(metric) == [k \in {LATENCY_RESOURCE_ID} |-> metric]

\* collect_results with the first pair of a name staying.
collect_results_first_wins(metrics) ==
    LET kept == SelectSeq(metrics, LAMBDA bm : is_valid_benchmark_name(bm[1]))
        names == {kept[i][1] : i \in DOMAIN kept}
        first(n) == CHOOSE i \in DOMAIN kept :
                        /\ kept[i][1] = n
                        /\ \A j \in DOMAIN kept : kept[j][1] = n => i <= j
    IN  [n \in names |-> latency_metrics(kept[first(n)][2])]

\* collect_results without the filter on the name.
collect_results_keeps_invalid(metrics) ==
    LET names == {metrics[i][1] : i \in DOMAIN metrics}
        last(n) == CHOOSE i \in DOMAIN metrics :
                       /\ metrics[i][1] = n
                       /\ \A j \in DOMAIN metrics : metrics[j][1] = n => j <= i
    IN  [n \in names |-> latency_metrics(metrics[last(n)][2])]

\* filter_map(..).collect::<HashMap<_, _>>(): pairs whose name does not
\* parse as a BenchmarkName are dropped; of the pairs with one name the
\* last inserted stays.
collect_results(metrics) ==
    LET kept == SelectSeq(metrics, LAMBDA bm : is_valid_benchmark_name(bm[1]))
        names == {kept[i][1] : i \in DOMAIN kept}
        last(n) == CHOOSE i \in DOMAIN kept :
                       /\ kept[i][1] = n
                       /\ \A j \in DOMAIN kept : kept[j][1] = n => j <= i
    IN  [n \in names |-> latency_metrics(kept[last(n)][2])]

\* The whole call, as a function of the lines and the setting.
RECURSIVE parse_from(_, _, _)
parse_from(st, lines, allow) ==
    IF st.ret # None THEN st.ret[1]
    ELSE IF lines = <<>> THEN Ok(collect_results(st.benchmark_metrics))
    ELSE parse_from(loop_body(st, Head(lines), allow), Tail(lines), allow)

parse(lines, allow) == parse_from(LoopState(None, <<>>, None), lines, allow)

(***************************************************************************)
(* The input lines the Criterion adapter is run on.                        *)
(***************************************************************************)
Str_time == <<"t", "i", "m", "e", ":">>
Str_ns == <<"n", "s">>

\* A number as written and the value it denotes.
Num(text, n, d) == [text |-> text, val |-> F64(n, d, 0)]

\* <name><ws1>time:<ws2>[<n1> <u1> <n2> <u2> <n3> <u3>]
Form(name, ws1, ws2, n, u) ==
    [name |-> name, ws1 |-> ws1, ws2 |-> ws2, n |-> n, u |-> u]

FormLine(f) ==
    f.name \o f.ws1 \o Str_time \o f.ws2 \o <<"[">>
      \o f.n[1].text \o <<" ">> \o f.u[1] \o <<" ">>
      \o f.n[2].text \o <<" ">> \o f.u[2] \o <<" ">>
      \o f.n[3].text \o <<" ">> \o f.u[3] \o <<"]">>

Form_a ==
    Form(<<"a">>, <<" ">>, <<" ">>,
         <<Num(<<"1">>, 1, 1), Num(<<"2">>, 2, 1), Num(<<"3">>, 3, 1)>>,
         <<Str_ns, Str_ns, Str_ns>>)

\* the same name again, with other numbers and units
Form_a2 ==
    Form(<<"a">>, <<" ", " ">>, <<" ">>,
         <<Num(<<"4">>, 4, 1), Num(<<"5">>, 5, 1), Num(<<"6">>, 6, 1)>>,
         <<<<"p", "s">>, <<"m", "s">>, Str_ns>>)

\* no leading text; the three numbers not ascending, each with its own unit
Form_nameless ==
    Form(<<>>, <<" ">>, <<" ">>,
         <<Num(<<"2">>, 2, 1), Num(<<"1">>, 1, 1), Num(<<"3">>, 3, 1)>>,
         <<<<"m", "s">>, <<"p", "s">>, <<"s">>>>)

\* a name with a space in it, tabs, grouping commas, both micro signs
Form_cd ==
    Form(<<"c", " ", "d">>, <<"\t", " ">>, <<" ", " ">>,
         <<Num(<<"1", ",", "5">>, 15, 1), Num(<<"2", ".", "5">>, 5, 2),
           Num(<<"3", ".">>, 3, 1)>>,
         <<<<"U+03BC", "s">>, <<"U+00B5", "s">>, <<"s">>>>)

Forms == {Form_a, Form_a2, Form_nameless, Form_cd}

Line_text == <<"b">>
Line_empty == <<>>
Line_panic ==
    <<"t", "h", "r", "e", "a", "d", " ", "'", "m", "'", " ", "p", "a", "n",
      "i", "c", "k", "e", "d", " ", "a", "t", " ", "'", "x", "'", ",", " ",
      "l", "'">>
\* a panic line whose location reads as a metric
Line_panic_metric ==
    <<"t", "h", "r", "e", "a", "d", " ", "'", "w", "'", " ", "p", "a", "n",
      "i", "c", "k", "e", "d", " ", "a", "t", " ", "'", "y", "'", ",", " ",
      " ">> \o Str_time \o <<" ", "[", "7", " ", "s", " ", "8", " ", "s",
      " ", "9", " ", "s", "]">>
\* a unit in the wrong case
Line_bad_unit ==
    <<"e", " ">> \o Str_time \o <<" ", "[", "1", " ", "N", "s", " ", "2",
      " ", "n", "s", " ", "3", " ", "n", "s", "]">>
\* a number f64::from_str refuses
Line_bad_number ==
    <<"e", " ">> \o Str_time \o <<" ", "[", "1", ".", ".", " ", "n", "s",
      " ", "2", " ", "n", "s", " ", "3", " ", "n", "s", "]">>
\* a unit that only begins like a recognized one
Line_bad_unit_sec ==
    <<"e", " ">> \o Str_time \o <<" ", "[", "1", " ", "n", "s", " ", "2",
      " ", "n", "s", " ", "3", " ", "s", "e", "c", "]">>
\* a number that is empty once its commas are stripped
Line_bad_number_comma ==
    <<"e", " ">> \o Str_time \o <<" ", "[", "1", " ", "n", "s", " ", ",",
      " ", "n", "s", " ", "3", " ", "n", "s", "]">>
\* text after the closing bracket
Line_trailing == FormLine(Form_a) \o <<"x">>

Lines ==
    {FormLine(f) : f \in Forms}
      \cup {Line_text, Line_empty, Line_panic, Line_panic_metric,
            Line_bad_unit, Line_bad_number, Line_bad_unit_sec,
            Line_bad_number_comma, Line_trailing}

Inputs == UNION {[1..n -> Lines] : n \in 0..MaxLines}

(***************************************************************************)
(* The Criterion adapter as a state machine: one step per loop iteration,  *)
(* one for the collection after the loop.                                  *)
(***************************************************************************)
NotReturned == [tag |-> "NotReturned", val |-> <<>>]
Idle == <<>>

InitCriterion ==
    /\ input \in Inputs
    /\ allow_failure \in BOOLEAN
    /\ idx = 0
    /\ prior_line = None
    /\ benchmark_metrics = <<>>
    /\ pc = "loop"
    /\ result = NotReturned
    /\ jmh = Idle
    /\ self_metrics = Idle
    /\ other = Idle
    /\ kind = "-"
    /\ rhs = 0

\* What a loop iteration that ended in state st leaves in the variables.
Returns(st) ==
    /\ prior_line' = st.prior_line
    /\ benchmark_metrics' = st.benchmark_metrics
    /\ pc' = IF st.ret = None THEN "loop" ELSE "done"
    /\ result' = IF st.ret = None THEN result ELSE st.ret[1]

CriterionLine ==
    /\ pc = "loop"
    /\ idx < Len(input)
    /\ idx' = idx + 1
    /\ Returns(loop_body(LoopState(prior_line, benchmark_metrics, None),
                         input[idx + 1], allow_failure))
    /\ UNCHANGED <<input, allow_failure, jmh, self_metrics, other, kind, rhs>>

CriterionCollect ==
    /\ pc = "loop"
    /\ idx = Len(input)
    /\ result' = Ok(collect_results(benchmark_metrics))
    /\ pc' = "done"
    /\ UNCHANGED <<input, allow_failure, idx, prior_line, benchmark_metrics,
                   jmh, self_metrics, other, kind, rhs>>

NextCriterion == CriterionLine \/ CriterionCollect

SpecCriterion == InitCriterion /\ [][NextCriterion]_vars

(***************************************************************************)
(* Properties of the Criterion adapter.                                    *)
(***************************************************************************)
\* The test of lines 37-38: the line matches the panic pattern.
Whole(r) == r.ok /\ r.rest = <<>>
IsPanicLine(line) == Whole(parse_panic(line))

\* The line matches the metric pattern; it does so with no leading text.
IsMetricLine(line) == Whole(parse_criterion(None, line))
IsNamelessMetricLine(line) == parse_criterion_time(line).ok

Last(s) == s[Len(s)]
HasPanicLine == \E i \in DOMAIN input : IsPanicLine(input[i])

\* C1: with allow_failure false, an input with a panic line anywhere makes
\* parse return Err(Panic) and no results, whatever metric lines stand
\* before or after it.
C1_PanicAborts ==
    (pc = "done" /\ ~allow_failure /\ HasPanicLine)
        => (result.tag = "Err" /\ result.val.kind = "Panic")

\* C1 witness: the call failed on a panic line with a metric already
\* pushed before it and a metric line still to come after it.
C1_Witness ==
    /\ pc = "done" /\ ~allow_failure
    /\ result.tag = "Err"
    /\ benchmark_metrics # <<>>
    /\ idx >= 2 /\ IsPanicLine(input[idx]) /\ ~IsMetricLine(input[idx])
    /\ \E j \in DOMAIN input : j > idx /\ IsMetricLine(input[j])

\* The input without its panic lines.
WithoutPanicLines == SelectSeq(input, LAMBDA l : ~IsPanicLine(l))

\* C2: with allow_failure true the call succeeds and returns what parsing
\* the input with every panic line deleted returns.
C2_PanicLinesContributeNothing ==
    (pc = "done" /\ allow_failure)
        => (result.tag = "Ok" /\ result = parse(WithoutPanicLines, TRUE))

\* C3 as claimed: a metric line with no leading text that is not the first
\* line is named by the full text of the line immediately before it.
C3_NameIsImmediatelyPrecedingLine ==
    (idx >= 2 /\ IsNamelessMetricLine(input[idx]))
        => (benchmark_metrics # <<>>
            /\ Last(benchmark_metrics)[1] = input[idx - 1])

\* The text of the last of the first k lines that is no panic line, the
\* empty text when there is none.
RECURSIVE NearestNonPanic(_)
NearestNonPanic(k) ==
    IF k = 0 THEN <<>>
    ELSE IF IsPanicLine(input[k]) THEN NearestNonPanic(k - 1)
    ELSE input[k]

\* C3 amended: such a line is named by the full text of the nearest earlier
\* line that is no panic line (the empty text when there is none); that is
\* the immediately preceding line unless allow_failure is true and that
\* line is a panic line.
C3_NameIsNearestNonPanicLine ==
    (idx >= 2 /\ IsNamelessMetricLine(input[idx]))
        => /\ benchmark_metrics # <<>>
           /\ Last(benchmark_metrics)[1] = NearestNonPanic(idx - 1)
           /\ (~allow_failure \/ ~IsPanicLine(input[idx - 1]))
                => Last(benchmark_metrics)[1] = input[idx - 1]

\* C3 witness: a nameless metric line right after a skipped panic line took
\* its name from the line before the panic line.
C3_Witness ==
    /\ allow_failure /\ idx >= 3
    /\ IsNamelessMetricLine(input[idx])
    /\ IsPanicLine(input[idx - 1])
    /\ ~IsPanicLine(input[idx - 2])
    /\ Last(benchmark_metrics)[1] = input[idx - 2]
    /\ input[idx - 2] # input[idx - 1]

\* The table of C4: the factor of each unit as written.
UnitFactor(u) ==
    CASE u = <<"p", "s">> -> F64(1, 1000, 0)
      [] u = <<"n", "s">> -> F64(1, 1, 0)
      [] u = <<"U+03BC", "s">> -> F64(1000, 1, 0)
      [] u = <<"U+00B5", "s">> -> F64(1000, 1, 0)
      [] u = <<"m", "s">> -> F64(1000000, 1, 0)
      [] u = <<"s">> -> F64(1000000, 1, 3)

Scaled(f, i) == F64Mul(f.n[i].val, UnitFactor(f.u[i]))

\* C4: a line <name><spaces>time:<spaces>[n1 u1 n2 u2 n3 u3] pushes the
\* leading text as the name and the metric lower_bound = n1*f(u1),
\* value = n2*f(u2), upper_bound = n3*f(u3), by position.
C4_MetricLineConversion ==
    \A f \in Forms :
        (idx >= 1 /\ input[idx] = FormLine(f))
            => /\ benchmark_metrics # <<>>
               /\ Last(benchmark_metrics)[2]
                    = JsonMetric(Scaled(f, 2), Some(Scaled(f, 1)),
                                 Some(Scaled(f, 3)))
               /\ f.name # <<>> => Last(benchmark_metrics)[1] = f.name

\* C4 witness: the line with grouping commas, tabs and both micro signs
\* was converted.
C4_Witness ==
    /\ idx >= 1 /\ input[idx] = FormLine(Form_cd)
    /\ Last(benchmark_metrics)
         = <<Form_cd.name,
             JsonMetric(F64(2500, 1, 0), Some(F64(15000, 1, 0)),
                        Some(F64(3, 1, 9)))>>

\* The lines of C13: the shape of a metric line, with a unit that is not
\* recognized or a number that does not parse.
BadUnitLines == {Line_bad_unit, Line_bad_unit_sec}
BadNumberLines == {Line_bad_number, Line_bad_number_comma}

\* C13: a line with an unrecognized unit or an unparsable number does not
\* match the metric pattern; the iteration that takes it pushes nothing
\* and does not return, so the call goes on to the next line.
C13_BadLinesAreSkipped ==
    [][(pc = "loop" /\ idx < Len(input)
          /\ input[idx + 1] \in BadUnitLines \cup BadNumberLines)
        => /\ ~parse_criterion(prior_line, input[idx + 1]).ok
           /\ benchmark_metrics' = benchmark_metrics
           /\ pc' = "loop"
           /\ result' = result]_vars

\* C13 witness: the call succeeded on a bad-unit line, a metric line and a
\* bad-number line; the results hold the metric line alone.
C13_Witness ==
    /\ pc = "done" /\ result.tag = "Ok"
    /\ Len(input) = 3
    /\ input[1] \in BadUnitLines
    /\ input[2] = FormLine(Form_a)
    /\ input[3] \in BadNumberLines
    /\ Len(benchmark_metrics) = 1
    /\ DOMAIN result.val = {Form_a.name}

\* The pairs the loop emitted under name n, by position.
Occurrences(n) == {i \in DOMAIN benchmark_metrics : benchmark_metrics[i][1] = n}
EmittedNames == {benchmark_metrics[i][1] : i \in DOMAIN benchmark_metrics}
Max(S) == CHOOSE i \in S : \A j \in S : j <= i

\* C12: when the call returns, a name emitted more than once has one entry
\* in the results, holding the metric of its last occurrence and nothing
\* else; the call fails only on a panic line (or, for JMH, on a score unit
\* that is refused), never because a name is repeated.
C12_LastOccurrenceWins ==
    pc = "done"
        => /\ result.tag = "Ok" =>
                \A n \in EmittedNames \ {<<>>} :
                    /\ n \in DOMAIN result.val
                    /\ DOMAIN result.val[n] = {"latency"}
                    /\ result.val[n]["latency"]
                         = benchmark_metrics[Max(Occurrences(n))][2]
           /\ result.tag = "Err" =>
                \/ /\ result.val.kind = "Panic"
                   /\ ~allow_failure
                   /\ \E i \in DOMAIN input : Whole(parse_panic(input[i]))
                \/ /\ result.val.kind = "InvalidUnit"
                   /\ \E i \in DOMAIN jmh :
                         jmh[i].primary_metric.score_unit
                           \notin {<<"o", "p", "s", "/">> \o u :
                                     u \in {<<"p", "s">>, <<"n", "s">>,
                                            <<"U+03BC", "s">>,
                                            <<"U+00B5", "s">>, <<"m", "s">>,
                                            <<"s">>}}

\* C12 witness: the call succeeded on an input that emitted one name twice
\* with different metrics and another name after them; the results hold
\* two entries, the repeated name with its second metric.
C12_Witness ==
    /\ pc = "done" /\ result.tag = "Ok"
    /\ Len(benchmark_metrics) = 3
    /\ benchmark_metrics[1][1] = benchmark_metrics[2][1]
    /\ benchmark_metrics[1][2] # benchmark_metrics[2][2]
    /\ benchmark_metrics[3][1] # benchmark_metrics[1][1]
    /\ Cardinality(DOMAIN result.val) = 2
    /\ result.val[benchmark_metrics[1][1]]["latency"]
         = benchmark_metrics[2][2]

\* C14: when no panic line ends the call, it succeeds; the keys of the
\* results are the emitted names but the empty one, so a pair with the
\* empty name is dropped, and every name emitted once holds its metric
\* under the latency kind.
C14_InvalidNamesDropped ==
    (pc = "done" /\ (allow_failure \/ ~HasPanicLine))
        => /\ result.tag = "Ok"
           /\ DOMAIN result.val = EmittedNames \ {<<>>}
           /\ \A i \in DOMAIN benchmark_metrics :
                 (benchmark_metrics[i][1] # <<>>
                    /\ Occurrences(benchmark_metrics[i][1]) = {i})
                 => result.val[benchmark_metrics[i][1]]
                      = [k \in {"latency"} |-> benchmark_metrics[i][2]]

\* C14 witness: the first line was a metric line with no leading text, two
\* named metric lines followed; the call succeeded with the two named
\* entries and without the nameless one.
C14_Witness ==
    /\ pc = "done" /\ result.tag = "Ok"
    /\ Len(input) = 3
    /\ input[1] = FormLine(Form_nameless)
    /\ input[2] = FormLine(Form_a)
    /\ input[3] = FormLine(Form_cd)
    /\ Len(benchmark_metrics) = 3
    /\ benchmark_metrics[1][1] = <<>>
    /\ DOMAIN result.val = {Form_a.name, Form_cd.name}

\* The text of the last of the first k lines that is no metric line, the
\* empty text when there is none.
RECURSIVE NearestNonMetric(_)
NearestNonMetric(k) ==
    IF k = 0 THEN <<>>
    ELSE IF IsMetricLine(input[k]) THEN NearestNonMetric(k - 1)
    ELSE input[k]

\* C15: a line that matches the metric pattern is not retained as the
\* previous line, so a metric line with no leading text that directly
\* follows a metric line is named by the most recent earlier line that is
\* no metric line, never by the text of the metric line before it.
C15_MetricLinesNotRetained ==
    /\ (pc = "loop" /\ prior_line # None) => ~IsMetricLine(prior_line[1])
    /\ (idx >= 2 /\ IsNamelessMetricLine(input[idx])
          /\ IsMetricLine(input[idx - 1]))
        => /\ benchmark_metrics # <<>>
           /\ Last(benchmark_metrics)[1] # input[idx - 1]
           /\ Last(benchmark_metrics)[1] = NearestNonMetric(idx - 1)

\* The position of the n-th single quote of a line.
Quotes(line) == {i \in DOMAIN line : line[i] = "'"}
NthQuote(line, n) ==
    CHOOSE i \in Quotes(line) :
        Cardinality({j \in Quotes(line) : j < i}) = n - 1

\* The fields of a panic line as C16 states them.
ThreadOf(line) ==
    SubSeq(line, NthQuote(line, 1) + 1, NthQuote(line, 2) - 1)
ContextOf(line) ==
    SubSeq(line, NthQuote(line, 3) + 1, NthQuote(line, 4) - 1)
LocationOf(line) == SubSeq(line, NthQuote(line, 4) + 3, Len(line))

FirstPanicIndex ==
    CHOOSE i \in DOMAIN input :
        IsPanicLine(input[i]) /\ \A j \in 1..(i - 1) : ~IsPanicLine(input[j])

\* C16: with allow_failure false the error carries the thread, context and
\* location of the first panic line; the loop stopped at that line, and
\* the call returned what it returns on the input cut after that line.
C16_FirstPanicReported ==
    (pc = "done" /\ ~allow_failure /\ HasPanicLine)
        => /\ result.tag = "Err"
           /\ result.val
                = [kind |-> "Panic",
                   thread |-> ThreadOf(input[FirstPanicIndex]),
                   context |-> ContextOf(input[FirstPanicIndex]),
                   location |-> LocationOf(input[FirstPanicIndex])]
           /\ idx = FirstPanicIndex
           /\ result = parse(SubSeq(input, 1, FirstPanicIndex), FALSE)

\* C16 witness: a metric line, then two panic lines with different threads;
\* the error is that of the first of the two, whose location holds a
\* quote, and the third line was never taken.
C16_Witness ==
    /\ pc = "done" /\ ~allow_failure
    /\ Len(input) = 3
    /\ input[1] = FormLine(Form_a)
    /\ input[2] = Line_panic
    /\ input[3] = Line_panic_metric
    /\ idx = 2
    /\ result = Err(Panic(<<"m">>, <<"x">>, <<"l", "'">>))

\* C17: with allow_failure true the call returns Ok on every input; the
\* one error the call returns at all is Panic, with allow_failure false.
C17_AllowFailureNeverFails ==
    pc = "done"
        => /\ allow_failure => result.tag = "Ok"
           /\ result.tag = "Err" => result.val.kind = "Panic"

\* C17 witness: with allow_failure true the call succeeded, with no
\* results, on a nameless metric line, a bad-unit line and a panic line.
C17_Witness ==
    /\ pc = "done" /\ allow_failure
    /\ Len(input) = 3
    /\ input[1] = FormLine(Form_nameless)
    /\ input[2] \in BadUnitLines \cup BadNumberLines
    /\ input[3] = Line_panic
    /\ result.tag = "Ok"
    /\ DOMAIN result.val = {}

\* What the call returns on the same input with the other setting.
OtherSetting == parse(input, ~allow_failure)

\* C18: the outcome of the call against its outcome on the same input with
\* the other setting: when the call with allow_failure false succeeds, the
\* call with allow_failure true returns the same Ok(results); and on an
\* input without a panic line the two calls return the same.
C18_SettingMattersOnlyWithPanic ==
    pc = "done"
        => LET returned == OtherSetting
           IN  /\ (~allow_failure /\ result.tag = "Ok") => returned = result
               /\ (allow_failure /\ returned.tag = "Ok") => result = returned
               /\ ~HasPanicLine => returned = result

\* C18 witness: the call with allow_failure false succeeded on a text line,
\* a nameless metric line and a named metric line, with two results; the
\* call with allow_failure true returns the same.
C18_Witness ==
    /\ pc = "done" /\ ~allow_failure
    /\ Len(input) = 3
    /\ input[1] = Line_text
    /\ input[2] = FormLine(Form_nameless)
    /\ input[3] = FormLine(Form_cd)
    /\ result.tag = "Ok"
    /\ DOMAIN result.val = {Line_text, Form_cd.name}
    /\ parse(input, TRUE) = result

(***************************************************************************)
(* jmh.rs: TryFrom<Jmh> for AdapterResults.                                *)
(***************************************************************************)
\* str::trim_start_matches: every repetition of the prefix is removed.
RECURSIVE trim_start_matches(_, _)
trim_start_matches(s, pat) ==
    IF pat # <<>> /\ Len(s) >= Len(pat) /\ Take(s, Len(pat)) = pat
    THEN trim_start_matches(Drop(s, Len(pat)), pat)
    ELSE s

Str_ops == <<"o", "p", "s", "/">>

\* adapters::util, <Units as FromStr>::from_str: the whole text is one of
\* the recognized unit names; anything else is an InvalidUnit error.
unit_or_error(u, s) ==
    IF u.ok /\ u.rest = <<>> THEN Ok(u.val)
    ELSE Err([kind |-> "InvalidUnit", unit |-> s])
units_from_str(s) == unit_or_error(parse_units(s), s)

\* adapters::util::time_as_nanos: the time scaled by its unit's factor.
time_as_nanos(time, units) == F64Mul(time, as_nanos(units))

\* jmh_metric with the bounds read from scoreConfidence.
jmh_metric_from_confidence(primary_metric, time_unit) ==
    JsonMetric(time_as_nanos(primary_metric.score, time_unit),
               Some(time_as_nanos(primary_metric.score_confidence[1],
                                  time_unit)),
               Some(time_as_nanos(primary_metric.score_confidence[2],
                                  time_unit)))

\* Lines 70-76: value, variance, and the metric with value -/+ variance.
jmh_metric(primary_metric, time_unit) ==
    LET value == time_as_nanos(primary_metric.score, time_unit)
        variance == time_as_nanos(primary_metric.score_error, time_unit)
    IN  JsonMetric(value, Some(F64Sub(value, variance)),
                   Some(F64Add(value, variance)))

\* One iteration of `for benchmark in jmh.0`: the `?` returns the error of
\* the unit's parse, otherwise the pair is pushed.
push_benchmark(metrics, benchmark, time_unit) ==
    IF time_unit.tag = "Err"
    THEN LoopState(None, metrics, Some(time_unit))
    ELSE LoopState(None,
                   Append(metrics,
                          <<benchmark.benchmark,
                            jmh_metric(benchmark.primary_metric,
                                       time_unit.val)>>),
                   None)
jmh_loop_body(metrics, benchmark) ==
    push_benchmark(metrics, benchmark,
        units_from_str(
            trim_start_matches(benchmark.primary_metric.score_unit, Str_ops)))

\* results::adapter_results, TryFrom<Vec<(BenchmarkName, JsonMetric)>>:
\* the pairs collected under the latency kind, a later pair replacing an
\* earlier one of the same name.
results_try_from(metrics) == Ok(collect_results(metrics))

\* The records the JMH adapter is run on.
PrimaryMetric(score, score_error, score_confidence, score_unit, raw_data) ==
    [score |-> score, score_error |-> score_error,
     score_confidence |-> score_confidence, score_unit |-> score_unit,
     raw_data |-> raw_data]

\* score, scoreError, scoreConfidence and rawData: the second differs from
\* the first in scoreConfidence and rawData alone.
JmhScores ==
    {<<F64(5, 1, 0), F64(1, 1, 0), <<F64(4, 1, 0), F64(6, 1, 0)>>,
       <<<<F64(5, 1, 0)>>>>>>,
     <<F64(5, 1, 0), F64(1, 1, 0), <<F64(0, 1, 0), F64(9, 1, 0)>>,
       <<<<F64(7, 1, 0), F64(3, 1, 0)>>>>>>,
     <<F64(5, 2, 0), F64(1, 2, 0), <<F64(2, 1, 0), F64(3, 1, 0)>>,
       <<>>>>}

Unit_ops_ns == Str_ops \o <<"n", "s">>
Unit_ops_s == Str_ops \o <<"s">>
Unit_ops_ops_ms == Str_ops \o Str_ops \o <<"m", "s">>
Unit_ns == <<"n", "s">>
Unit_ops_xs == Str_ops \o <<"x", "s">>

JmhUnits == {Unit_ops_ns, Unit_ops_s, Unit_ops_ops_ms, Unit_ns, Unit_ops_xs}

Benchmarks ==
    {[benchmark |-> name,
      primary_metric |-> PrimaryMetric(sc[1], sc[2], sc[3], unit, sc[4])] :
        name \in {<<"f">>, <<"g">>}, sc \in JmhScores, unit \in JmhUnits}

JmhInputs == UNION {[1..n -> Benchmarks] : n \in 0..MaxRecords}

InitJmh ==
    /\ jmh \in JmhInputs
    /\ idx = 0
    /\ benchmark_metrics = <<>>
    /\ pc = "loop"
    /\ result = NotReturned
    /\ input = Idle
    /\ allow_failure = FALSE
    /\ prior_line = None
    /\ self_metrics = Idle
    /\ other = Idle
    /\ kind = "-"
    /\ rhs = 0

JmhBenchmark ==
    /\ pc = "loop"
    /\ idx < Len(jmh)
    /\ idx' = idx + 1
    /\ Returns(jmh_loop_body(benchmark_metrics, jmh[idx + 1]))
    /\ UNCHANGED <<input, allow_failure, jmh, self_metrics, other, kind, rhs>>

JmhCollect ==
    /\ pc = "loop"
    /\ idx = Len(jmh)
    /\ result' = results_try_from(benchmark_metrics)
    /\ pc' = "done"
    /\ UNCHANGED <<input, allow_failure, idx, prior_line, benchmark_metrics,
                   jmh, self_metrics, other, kind, rhs>>

NextJmh == JmhBenchmark \/ JmhCollect

SpecJmh == InitJmh /\ [][NextJmh]_vars

(***************************************************************************)
(* Properties of the JMH adapter.                                          *)
(***************************************************************************)
\* The factor of a score unit of the form "ops/" <time unit>; 0 marks every
\* other text.
JmhFactor(score_unit) ==
    CASE score_unit = Str_ops \o <<"p", "s">> -> F64(1, 1000, 0)
      [] score_unit = Str_ops \o <<"n", "s">> -> F64(1, 1, 0)
      [] score_unit = Str_ops \o <<"U+03BC", "s">> -> F64(1000, 1, 0)
      [] score_unit = Str_ops \o <<"U+00B5", "s">> -> F64(1000, 1, 0)
      [] score_unit = Str_ops \o <<"m", "s">> -> F64(1000000, 1, 0)
      [] score_unit = Str_ops \o <<"s">> -> F64(1000000, 1, 3)
      [] OTHER -> F64(0, 1, 0)

IsOpsUnit(score_unit) == JmhFactor(score_unit) # F64(0, 1, 0)

C6_OnlyOpsUnitsAccepted ==
    pc = "done"
        => IF \A i \in DOMAIN jmh : IsOpsUnit(jmh[i].primary_metric.score_unit)
           THEN result.tag = "Ok"
           ELSE result.tag = "Err" /\ result.val.kind = "InvalidUnit"

(***************************************************************************)
(* adapter_metrics.rs: AdapterMetrics::combined and Div<usize>.  An        *)
(* AdapterMetrics is its inner map, a function from metric kinds to        *)
(* metrics.                                                                *)
(***************************************************************************)
\* bencher_json, Ord for JsonMetric: metrics compare on their value.
metric_less(a, b) == F64Less(a.value, b.value)

\* Ord::min and Ord::max as line 31 and 32 call them: min keeps self
\* unless other is less, max keeps other unless self is greater.
metric_min(metric, other_metric) ==
    IF metric_less(other_metric, metric) THEN other_metric ELSE metric
metric_max(metric, other_metric) ==
    IF metric_less(other_metric, metric) THEN metric ELSE other_metric

\* bencher_json, Add for JsonMetric: the values summed, a bound summed
\* when both operands have it and None otherwise.
bound_add(a, b) ==
    IF a # None /\ b # None THEN Some(F64Add(a[1], b[1])) ELSE None
metric_add(a, b) ==
    JsonMetric(F64Add(a.value, b.value),
               bound_add(a.lower_bound, b.lower_bound),
               bound_add(a.upper_bound, b.upper_bound))

\* bencher_json, Div<usize> for JsonMetric: the value and each bound that
\* is present divided by rhs as f64, with no test of rhs.
bound_div(a, n) == IF a # None THEN Some(F64DivInt(a[1], n)) ELSE None
metric_div(metric, n) ==
    JsonMetric(F64DivInt(metric.value, n), bound_div(metric.lower_bound, n),
               bound_div(metric.upper_bound, n))

\* combined with Min and Max exchanged.
combined_min_max_swapped(self, other_metrics, combined_kind) ==
    [k \in DOMAIN self \cup DOMAIN other_metrics |->
        IF k \in DOMAIN self
        THEN IF k \in DOMAIN other_metrics
             THEN CASE combined_kind = "Min" ->
                           metric_max(self[k], other_metrics[k])
                    [] combined_kind = "Max" ->
                           metric_min(self[k], other_metrics[k])
                    [] combined_kind = "Add" ->
                           metric_add(self[k], other_metrics[k])
             ELSE self[k]
        ELSE other_metrics[k]]

\* combined with Add keeping the receiver's metric.
combined_add_keeps_self(self, other_metrics, combined_kind) ==
    [k \in DOMAIN self \cup DOMAIN other_metrics |->
        IF k \in DOMAIN self
        THEN IF k \in DOMAIN other_metrics
             THEN CASE combined_kind = "Min" ->
                           metric_min(self[k], other_metrics[k])
                    [] combined_kind = "Max" ->
                           metric_max(self[k], other_metrics[k])
                    [] combined_kind = "Add" -> self[k]
             ELSE self[k]
        ELSE other_metrics[k]]

\* combined without metric_map.extend(other.inner).
combined_without_extend(self, other_metrics, combined_kind) ==
    [k \in DOMAIN self |->
        IF k \in DOMAIN other_metrics
        THEN CASE combined_kind = "Min" ->
                      metric_min(self[k], other_metrics[k])
               [] combined_kind = "Max" ->
                      metric_max(self[k], other_metrics[k])
               [] combined_kind = "Add" ->
                      metric_add(self[k], other_metrics[k])
        ELSE self[k]]

\* AdapterMetrics::combined: each entry of self is combined with the entry
\* removed from other when there is one and kept otherwise; what remains
\* of other is then added.
combined(self, other_metrics, combined_kind) ==
    [k \in DOMAIN self \cup DOMAIN other_metrics |->
        IF k \in DOMAIN self
        THEN IF k \in DOMAIN other_metrics
             THEN CASE combined_kind = "Min" ->
                           metric_min(self[k], other_metrics[k])
                    [] combined_kind = "Max" ->
                           metric_max(self[k], other_metrics[k])
                    [] combined_kind = "Add" ->
                           metric_add(self[k], other_metrics[k])
             ELSE self[k]
        ELSE other_metrics[k]]

\* div dividing the value alone, the bounds left as they were.
div_value_alone(self, n) ==
    [k \in DOMAIN self |->
        JsonMetric(F64DivInt(self[k].value, n), self[k].lower_bound,
                   self[k].upper_bound)]

\* Div<usize> for AdapterMetrics: every metric divided by rhs.
div(self, n) == [k \in DOMAIN self |-> metric_div(self[k], n)]

\* CombinedKind::Ord(OrdKind::Min), CombinedKind::Ord(OrdKind::Max),
\* CombinedKind::Add
CombinedKinds == {"Min", "Max", "Add"}

MetricKinds == {"latency", "throughput"}

\* The metrics the operations are run on: values 1..MaxValue, without
\* bounds, with both bounds, or with the lower bound alone.
Metrics ==
    UNION {{JsonMetric(F64(v, 1, 0), None, None),
            JsonMetric(F64(v, 1, 0), Some(F64(v - 1, 1, 0)),
                       Some(F64(v + 2, 1, 0))),
            JsonMetric(F64(v, 1, 0), Some(F64(v - 1, 1, 0)), None)} :
           v \in 1..MaxValue}

MetricSets == UNION {[D -> Metrics] : D \in SUBSET MetricKinds}

Returned(v) == [tag |-> "Returned", val |-> v]

InitMetrics ==
    /\ self_metrics \in MetricSets
    /\ other \in MetricSets
    /\ kind = "-"
    /\ rhs = 0
    /\ pc = "start"
    /\ result = NotReturned
    /\ input = Idle
    /\ allow_failure = FALSE
    /\ idx = 0
    /\ prior_line = None
    /\ benchmark_metrics = <<>>
    /\ jmh = Idle

Combined ==
    /\ pc = "start"
    /\ \E k \in CombinedKinds :
          /\ kind' = k
          /\ result' = Returned(combined(self_metrics, other, k))
    /\ pc' = "combined"
    /\ UNCHANGED <<input, allow_failure, idx, prior_line, benchmark_metrics,
                   jmh, self_metrics, other, rhs>>

Div ==
    /\ pc = "start"
    /\ \E n \in 0..MaxDiv :
          /\ rhs' = n
          /\ result' = Returned(div(self_metrics, n))
    /\ pc' = "divided"
    /\ UNCHANGED <<input, allow_failure, idx, prior_line, benchmark_metrics,
                   jmh, self_metrics, other, kind>>

NextMetrics == Combined \/ Div

SpecMetrics == InitMetrics /\ [][NextMetrics]_vars

(***************************************************************************)
(* Properties of AdapterMetrics.                                           *)
(***************************************************************************)
InBoth == DOMAIN self_metrics \cap DOMAIN other

\* C7: under Min (Max) the entry of a kind present in both sets is one of
\* the two input metrics, whole, and no input has a smaller (larger)
\* value.
C7_MinMaxKeepWholeMetric ==
    (pc = "combined" /\ kind \in {"Min", "Max"})
        => \A k \in InBoth :
              LET out == result.val[k]
                  a == self_metrics[k]
                  b == other[k]
              IN  /\ out \in {a, b}
                  /\ kind = "Min" =>
                        /\ ~F64Less(a.value, out.value)
                        /\ ~F64Less(b.value, out.value)
                  /\ kind = "Max" =>
                        /\ ~F64Less(out.value, a.value)
                        /\ ~F64Less(out.value, b.value)

\* C7 witness: Min kept the smaller metric with its own bounds although
\* the other metric had different ones.
C7_Witness ==
    /\ pc = "combined" /\ kind = "Min"
    /\ \E k \in InBoth :
          /\ F64Less(other[k].value, self_metrics[k].value)
          /\ other[k].lower_bound # self_metrics[k].lower_bound
          /\ other[k].upper_bound # self_metrics[k].upper_bound
          /\ result.val[k] = other[k]

\* The sum of two optional bounds as C8 states it.
BoundSum(a, b) ==
    IF a = None \/ b = None THEN None ELSE Some(F64Add(a[1], b[1]))

\* C8: under Add the entry of a kind present in both sets has the sum of
\* the values, and as each bound the sum of the two bounds when both
\* metrics have it and no bound otherwise.
C8_AddSumsValuesAndBounds ==
    (pc = "combined" /\ kind = "Add")
        => \A k \in InBoth :
              LET out == result.val[k]
                  a == self_metrics[k]
                  b == other[k]
              IN  /\ out.value = F64Add(a.value, b.value)
                  /\ out.lower_bound = BoundSum(a.lower_bound, b.lower_bound)
                  /\ out.upper_bound = BoundSum(a.upper_bound, b.upper_bound)

\* C8 witness: both metrics had a lower bound and one of them no upper
\* bound; the sum has the summed lower bound and no upper bound.
C8_Witness ==
    /\ pc = "combined" /\ kind = "Add"
    /\ \E k \in InBoth :
          /\ self_metrics[k].upper_bound = None
          /\ other[k].upper_bound # None
          /\ self_metrics[k].lower_bound # None
          /\ other[k].lower_bound # None
          /\ result.val[k].upper_bound = None
          /\ result.val[k].lower_bound # None
          /\ result.val[k].value # self_metrics[k].value

\* C9: under every policy the keys of the result are the union of the
\* keys of the inputs, and a kind present in one set alone keeps its
\* metric.
C9_KeyUnion ==
    pc = "combined"
        => /\ DOMAIN result.val = DOMAIN self_metrics \cup DOMAIN other
           /\ \A k \in DOMAIN self_metrics \ DOMAIN other :
                 result.val[k] = self_metrics[k]
           /\ \A k \in DOMAIN other \ DOMAIN self_metrics :
                 result.val[k] = other[k]

\* C9 witness: one kind came from self alone and another from other alone.
C9_Witness ==
    /\ pc = "combined"
    /\ DOMAIN self_metrics = {"latency"}
    /\ DOMAIN other = {"throughput"}
    /\ DOMAIN result.val = {"latency", "throughput"}
    /\ result.val["throughput"] = other["throughput"]

\* C10: the division never returns a metric set computed with a zero
\* divisor.
C10_NoDivisionByZero == ~(pc = "divided" /\ rhs = 0)

\* A bound of C11: x is the n-th part of bound a, absent when a is.
IsBoundPart(x, a, n) ==
    IF a = None THEN x = None
    ELSE x # None /\ F64Mul(x[1], F64(n, 1, 0)) = a[1]

\* C11: dividing by a positive n keeps exactly the metric kinds of the set;
\* each value and each present bound of the result, times n, is the
\* original, and each absent bound stays absent.
C11_DivByPositive ==
    (pc = "divided" /\ rhs > 0)
        => /\ DOMAIN result.val = DOMAIN self_metrics
           /\ \A k \in DOMAIN self_metrics :
                 /\ F64Mul(result.val[k].value, F64(rhs, 1, 0))
                      = self_metrics[k].value
                 /\ IsBoundPart(result.val[k].lower_bound,
                                self_metrics[k].lower_bound, rhs)
                 /\ IsBoundPart(result.val[k].upper_bound,
                                self_metrics[k].upper_bound, rhs)

\* C11 witness: a set of two kinds was halved; one metric of value 1 with
\* a lower bound and no upper bound became 1/2 with the halved lower bound
\* and no upper bound.
C11_Witness ==
    /\ pc = "divided" /\ rhs = 2
    /\ DOMAIN self_metrics = MetricKinds
    /\ \E k \in MetricKinds :
          /\ self_metrics[k]
               = JsonMetric(F64(1, 1, 0), Some(F64(0, 1, 0)), None)
          /\ result.val[k] = JsonMetric(F64(1, 2, 0), Some(F64(0, 1, 0)), None)
    /\ \E k \in MetricKinds :
          /\ self_metrics[k]
               = JsonMetric(F64(2, 1, 0), Some(F64(1, 1, 0)),
                            Some(F64(4, 1, 0)))
          /\ result.val[k]
               = JsonMetric(F64(1, 1, 0), Some(F64(1, 2, 0)),
                            Some(F64(2, 1, 0)))

====
